---- MODULE Spec2Model ----
(***************************************************************************)
(* Model of src/stable_matching.py: the validator all_preferences, the     *)
(* proposal loop of stable_matching and the composition of its result.    *)
(*                                                                         *)
(* A Python dict is modelled with its insertion order wherever the code    *)
(* iterates over it: a side is a record of its keys (in insertion order)   *)
(* and its preference lists, the engagement map is a sequence of           *)
(* <<key, value>> entries.                                                 *)
(***************************************************************************)
EXTENDS Integers, Sequences, FiniteSets, TLC

VARIABLES participants, pc, free_proposers, idx, proposal_history,
          engagements, result, previous

vars == <<participants, pc, free_proposers, idx, proposal_history,
          engagements, result, previous>>

(* ------------------------------ bounds -------------------------------- *)

\* Largest number of participants on the proposing side.
MaxProposers == 3

\* Largest number of participants on the receiving side.
MaxReceivers == 3

\* Largest side for which arbitrary (possibly defective) lists are drawn.
MaxLooseSide == 2

\* Largest length of an arbitrary (possibly defective) preference list.
MaxLooseLen == 2

(* ------------------------------ inputs -------------------------------- *)

\* Names of the proposing side, in the insertion order of its dict.
ProposerPool == <<"abc", "asd", "pqq", "bcd", "cde">>

\* Names of the receiving side, in the insertion order of its dict.
ReceiverPool == <<"123", "451", "912", "234", "345">>

\* An identifier that is a participant of neither side.
Stranger == "zzz"

Range(s) == {s[i] : i \in DOMAIN s}

\* The orderings of a finite set: the lists holding each member once.
Orderings(S) == {f \in [1..Cardinality(S) -> S] : Range(f) = S}

\* Every list over U of length at most n.
ListsUpTo(U, n) == UNION {[1..k -> U] : k \in 0..n}

\* A side (Dict[Person, Preferences]) with the given keys, each list in L.
SidesOver(keys, L) == [keys : {keys}, prefs : [Range(keys) -> L]]

\* Inputs whose every list is a complete strict ranking of the other side.
StrictInputs(np, nr) ==
    LET P == SubSeq(ProposerPool, 1, np)
        R == SubSeq(ReceiverPool, 1, nr)
    IN  [side_A : SidesOver(P, Orderings(Range(R))),
         side_B : SidesOver(R, Orderings(Range(P)))]

\* Inputs whose lists are arbitrary: members may be missing, repeated or
\* unknown.
LooseInputs(np, nr) ==
    LET P == SubSeq(ProposerPool, 1, np)
        R == SubSeq(ReceiverPool, 1, nr)
    IN  [side_A : SidesOver(P, ListsUpTo(Range(R) \cup {Stranger}, MaxLooseLen)),
         side_B : SidesOver(R, ListsUpTo(Range(P) \cup {Stranger}, MaxLooseLen))]

Inputs ==
    UNION {StrictInputs(np, nr) : np \in 1..MaxProposers, nr \in 1..MaxReceivers}
    \cup
    UNION {LooseInputs(np, nr) : np \in 1..MaxLooseSide, nr \in 1..MaxLooseSide}

(* ------------------------- dict with order ---------------------------- *)

DictHas(d, k) == \E i \in DOMAIN d : d[i][1] = k

DictGet(d, k) == d[CHOOSE i \in DOMAIN d : d[i][1] = k][2]

\* d[k] = v: an existing key keeps its position, a new key goes last.
DictSet(d, k, v) ==
    IF DictHas(d, k)
    THEN [i \in DOMAIN d |-> IF d[i][1] = k THEN <<k, v>> ELSE d[i]]
    ELSE Append(d, <<k, v>>)

\* del d[k]
DictDel(d, k) == SelectSeq(d, LAMBDA e : e[1] # k)

(* --------------------------- pure functions --------------------------- *)

\* list(participants.keys()): the two side labels in insertion order.
sides == <<"side_A", "side_B">>

other_side(current_side, all_sides) ==
    all_sides[CHOOSE i \in DOMAIN all_sides :
                 /\ all_sides[i] # current_side
                 /\ \A j \in 1..(i - 1) : all_sides[j] = current_side]

\* all_preferences looking at the lists of the first side only.
all_preferences_first_side(p) ==
    \A n \in DOMAIN p.side_A.keys :
        \A o \in DOMAIN p.side_B.keys :
            p.side_B.keys[o] \in Range(p.side_A.prefs[p.side_A.keys[n]])

\* all_preferences looking at the lists of the last side only.
all_preferences_last_side(p) ==
    \A n \in DOMAIN p.side_B.keys :
        \A o \in DOMAIN p.side_A.keys :
            p.side_A.keys[o] \in Range(p.side_B.prefs[p.side_B.keys[n]])

\* all_preferences that also wants each list to be as long as the other
\* side.
all_preferences_exact(p) ==
    /\ all_preferences_first_side(p)
    /\ all_preferences_last_side(p)
    /\ \A n \in DOMAIN p.side_A.keys :
           Len(p.side_A.prefs[p.side_A.keys[n]]) = Len(p.side_B.keys)
    /\ \A n \in DOMAIN p.side_B.keys :
           Len(p.side_B.prefs[p.side_B.keys[n]]) = Len(p.side_A.keys)

all_preferences(p) ==
    \A s \in DOMAIN sides :
        LET people == p[sides[s]]
            other_side_participants == p[other_side(sides[s], sides)]
        IN  \A n \in DOMAIN people.keys :
                \A o \in DOMAIN other_side_participants.keys :
                    other_side_participants.keys[o]
                        \in Range(people.prefs[people.keys[n]])

is_free(person, engaged) == ~DictHas(engaged, person)

current_match(person, engaged) == DictGet(engaged, person)

free_participants(people, engaged) ==
    SelectSeq(people, LAMBDA x : ~DictHas(engaged, x))

\* preferred with its two answers exchanged: the later of the two wins.
preferred_swapped(a, b, preferences) ==
    \E i \in DOMAIN preferences :
        /\ preferences[i] = b
        /\ \A j \in 1..(i - 1) : preferences[j] # a /\ preferences[j] # b

\* The first of a and b met in the list decides; None (neither is met) is
\* falsy at the only call site.
preferred(a, b, preferences) ==
    \E i \in DOMAIN preferences :
        /\ preferences[i] = a
        /\ \A j \in 1..(i - 1) : preferences[j] # a /\ preferences[j] # b

(* ------------------------------ state --------------------------------- *)

proposers == participants.side_A

receivers == participants.side_B

Init ==
    /\ participants \in Inputs
    /\ pc = "start"
    /\ free_proposers = <<>>
    /\ idx = 0
    /\ proposal_history = <<>>
    /\ engagements = <<>>
    /\ result = <<>>
    /\ previous = <<>>

(* ------------------------------ actions ------------------------------- *)

\* Lines 120-132: the validation, the set-up of the run and the first test
\* of the while loop.
Validate ==
    /\ pc = "start"
    /\ IF ~all_preferences(participants)
       THEN /\ pc' = "MissingPreferences"
            /\ UNCHANGED <<free_proposers, idx, proposal_history, engagements>>
       ELSE /\ free_proposers' = proposers.keys
            /\ proposal_history' = [k \in Range(proposers.keys) |-> {}]
            /\ engagements' = <<>>
            /\ idx' = 1
            /\ pc' = IF proposers.keys # <<>> THEN "for" ELSE "compose"
    /\ UNCHANGED <<participants, result, previous>>

\* The positions of the proposer's list it has not proposed to yet.
Unproposed(proposer) ==
    {i \in DOMAIN proposers.prefs[proposer] :
        proposers.prefs[proposer][i] \notin proposal_history[proposer]}

\* NextTarget taking the last target that is not in the history.
NextTarget_last(proposer) ==
    LET i == CHOOSE k \in Unproposed(proposer) :
                 \A j \in Unproposed(proposer) : k >= j
    IN  proposers.prefs[proposer][i]

\* Lines 135-137: the first target of the list that is not in the history.
NextTarget(proposer) ==
    LET i == CHOOSE k \in Unproposed(proposer) :
                 \A j \in Unproposed(proposer) : k <= j
    IN  proposers.prefs[proposer][i]

\* Lines 143-144: proposer and free target become engaged.
Engage(e, proposer, target) ==
    DictSet(DictSet(e, proposer, target), target, proposer)

\* Replace that leaves the incumbent's entry in the map.
Replace_keep(e, proposer, target, current) ==
    DictSet(DictSet(e, target, proposer), proposer, target)

\* Lines 152-155: the proposer replaces the incumbent, who is freed.
Replace(e, proposer, target, current) ==
    DictDel(DictSet(DictSet(e, target, proposer), proposer, target), current)

\* Lines 133-157: one iteration of the for loop, the proposer at position
\* idx of free_proposers makes at most one proposal.
Propose ==
    /\ pc = "for"
    /\ idx <= Len(free_proposers)
    /\ LET proposer == free_proposers[idx] IN
       IF Unproposed(proposer) = {}
       THEN /\ idx' = idx + 1
            /\ UNCHANGED <<pc, proposal_history, engagements>>
       ELSE LET target == NextTarget(proposer) IN
            /\ proposal_history' =
                   [proposal_history EXCEPT ![proposer] = @ \cup {target}]
            /\ IF is_free(target, engagements)
               THEN /\ engagements' = Engage(engagements, proposer, target)
                    /\ idx' = idx + 1
                    /\ pc' = pc
               ELSE LET current == current_match(target, engagements) IN
                    IF target \notin Range(receivers.keys)
                    THEN \* receivers[target] raises KeyError
                         /\ pc' = "KeyError"
                         /\ UNCHANGED <<idx, engagements>>
                    ELSE /\ engagements' =
                               IF preferred(proposer, current,
                                            receivers.prefs[target])
                               THEN Replace(engagements, proposer, target,
                                            current)
                               ELSE engagements
                         /\ idx' = idx + 1
                         /\ pc' = pc
    /\ UNCHANGED <<participants, free_proposers, result, previous>>

\* Line 160 and the test of line 132: the sweep is over, the free proposers
\* are filtered out of the list just iterated.
EndSweep ==
    /\ pc = "for"
    /\ idx > Len(free_proposers)
    /\ free_proposers' = free_participants(free_proposers, engagements)
    /\ idx' = 1
    /\ pc' = IF free_proposers' # <<>> THEN "for" ELSE "compose"
    /\ UNCHANGED <<participants, proposal_history, engagements, result,
                   previous>>

\* StableMatchings without the test for the reverse pair.
StableMatchings_unchecked(e, i, acc) ==
    acc \cup {<<e[k][1], e[k][2]>> : k \in i..Len(e)}

\* Lines 163-167: the set built from the engagement map in insertion order.
RECURSIVE StableMatchings(_, _, _)
StableMatchings(e, i, acc) ==
    IF i > Len(e)
    THEN acc
    ELSE LET a == e[i][1]
             b == e[i][2]
         IN  StableMatchings(e, i + 1,
                 IF <<b, a>> \notin acc THEN acc \cup {<<a, b>>} ELSE acc)

\* Line 170: list(set) of tuples of str. The iteration order of the set
\* follows the hashes of the strings, which differ from one interpreter
\* process to the next (hash randomization).
ListOfSet(S) == Orderings(S)

\* Lines 162-170.
Compose ==
    /\ pc = "compose"
    /\ result' \in ListOfSet(StableMatchings(engagements, 1, {}))
    /\ pc' = "done"
    /\ UNCHANGED <<participants, free_proposers, idx, proposal_history,
                   engagements, previous>>

Next == Validate \/ Propose \/ EndSweep \/ Compose

Spec == Init /\ [][Next]_vars

\* The interpreter runs the function to its end: a step that can be taken
\* is taken.
FairSpec == Spec /\ WF_vars(Next)

\* A second call of stable_matching(participants) on the same input, in a
\* new interpreter process; the result of the first call is kept aside.
Rerun ==
    /\ pc = "done"
    /\ previous = <<>>
    /\ previous' = <<result>>
    /\ pc' = "start"
    /\ free_proposers' = <<>>
    /\ idx' = 0
    /\ proposal_history' = <<>>
    /\ engagements' = <<>>
    /\ result' = <<>>
    /\ UNCHANGED participants

NextTwice == Next \/ Rerun

SpecTwice == Init /\ [][NextTwice]_vars

(* ------------------------- notions of the claims ---------------------- *)

P == Range(proposers.keys)

R == Range(receivers.keys)

\* Every list is a complete strict ranking of the other side.
IsStrict ==
    /\ \A p \in P : proposers.prefs[p] \in Orderings(R)
    /\ \A r \in R : receivers.prefs[r] \in Orderings(P)

\* The position of x in a list that holds it.
Rank(list, x) == CHOOSE i \in DOMAIN list : list[i] = x

\* The couples of the returned list, orientation aside.
Couples == {{result[i][1], result[i][2]} : i \in DOMAIN result}

\* The partners of x in the returned list.
PartnersOf(x) == {y \in P \cup R \cup {Stranger} : {x, y} \in Couples}

Returned == pc = "done"

(* ------------------------------- claims ------------------------------- *)

\* p and r, each matched to someone else in the returned list, prefer each
\* other to their partners.
BlockingPair(p, r) ==
    /\ \E r2 \in PartnersOf(p) \ {r} :
           Rank(proposers.prefs[p], r) < Rank(proposers.prefs[p], r2)
    /\ \E p2 \in PartnersOf(r) \ {p} :
           Rank(receivers.prefs[r], p) < Rank(receivers.prefs[r], p2)

\* C1: when stable_matching returns on an input of complete strict
\* rankings, no proposer and receiver that are both matched to someone
\* else prefer each other to their partners in the returned list.
C1_Stability ==
    (Returned /\ IsStrict) => ~\E p \in P, r \in R : BlockingPair(p, r)

\* A run on three proposers has returned after a proposer that had to
\* propose more than once was matched.
C1_Witness ==
    /\ Returned /\ IsStrict
    /\ Cardinality(P) = 3
    /\ \E p \in P : Cardinality(proposal_history[p]) >= 2 /\ PartnersOf(p) # {}

\* C2: on every input that passes the validation, whatever the sizes of
\* the two sides, the while loop exits and stable_matching returns.
C2_Termination == (IsStrict /\ all_preferences(participants)) => <>Returned

\* C3: on equal sides of n participants with complete strict rankings the
\* returned list has n pairs and holds every proposer and every receiver.
C3_PerfectMatching ==
    (Returned /\ IsStrict /\ Cardinality(P) = Cardinality(R)) =>
        /\ Len(result) = Cardinality(P)
        /\ \A x \in P \cup R : PartnersOf(x) # {}

Unmatched == "nobody"

\* The matchings of the input: each proposer has a receiver or nobody, no
\* receiver has two proposers.
Matchings ==
    {m \in [P -> R \cup {Unmatched}] :
        \A p1, p2 \in P : (p1 # p2 /\ m[p1] # Unmatched) => m[p1] # m[p2]}

\* p would leave its lot in m for r, and r would leave its own for p.
Blocks(m, p, r) ==
    /\ m[p] # r
    /\ \/ m[p] = Unmatched
       \/ Rank(proposers.prefs[p], r) < Rank(proposers.prefs[p], m[p])
    /\ \A p2 \in P :
           m[p2] = r => Rank(receivers.prefs[r], p) < Rank(receivers.prefs[r], p2)

StableMatchingsOfInput ==
    {m \in Matchings : ~\E p \in P, r \in R : Blocks(m, p, r)}

\* C4: every proposer that has a receiver in some stable matching of the
\* input is matched in the returned list, to a receiver it ranks at least
\* as high as any receiver it has in a stable matching.
C4_ProposerOptimal ==
    (Returned /\ IsStrict) =>
        \A m \in StableMatchingsOfInput : \A p \in P :
            m[p] # Unmatched =>
                /\ PartnersOf(p) # {}
                /\ \A r \in PartnersOf(p) :
                       Rank(proposers.prefs[p], r) <= Rank(proposers.prefs[p], m[p])

\* Some participant's list omits a member of the opposite side.
SomeoneOmitted ==
    \/ \E p \in P : \E r \in R : r \notin Range(proposers.prefs[p])
    \/ \E r \in R : \E p \in P : p \notin Range(receivers.prefs[r])

\* Nothing of the run exists: no history, no engagement, no result.
NothingStarted ==
    /\ DOMAIN proposal_history = {}
    /\ engagements = <<>>
    /\ result = <<>>

\* C5: when a list of either side omits a member of the opposite side,
\* stable_matching raises MissingPreferences before the history or the
\* engagement map exists and returns nothing.
C5_CompletenessRejection ==
    SomeoneOmitted =>
        /\ pc \in {"start", "MissingPreferences"}
        /\ NothingStarted

\* MissingPreferences was raised for an input whose only defective lists
\* are on the receiving side.
C5_Witness ==
    /\ pc = "MissingPreferences"
    /\ \A p \in P : R \subseteq Range(proposers.prefs[p])
    /\ \E r \in R : \E p \in P : p \notin Range(receivers.prefs[r])

\* C6: in the returned list no two pairs share a participant, so nobody is
\* in two pairs and no couple is listed twice or in both orientations.
C6_NoDoubleBooking ==
    Returned =>
        \A i, j \in DOMAIN result :
            i # j => Range(result[i]) \cap Range(result[j]) = {}

\* A list of at least two pairs was returned after an engagement had been
\* replaced.
C6_Witness ==
    /\ Returned
    /\ Len(result) >= 2
    /\ \E p \in P : Cardinality(proposal_history[p]) >= 2

\* C7: every pair of the list returned on an input of complete strict
\* rankings has the proposer first and the receiver second.
C7_CanonicalOrientation ==
    (Returned /\ IsStrict) =>
        \A i \in DOMAIN result : result[i][1] \in P /\ result[i][2] \in R

\* r is ranked by no proposer, and nothing else is missing from any list.
ExtraUnranked(r) ==
    /\ \A p \in P : r \notin Range(proposers.prefs[p])
    /\ \A p \in P : (R \ {r}) \subseteq Range(proposers.prefs[p])
    /\ \A r2 \in R : P \subseteq Range(receivers.prefs[r2])

\* C8 as stated: with one extra receiver that no proposer ranks, no error
\* is raised and the returned matching leaves that receiver out.
C8_ExtraReceiverTolerated ==
    \A r \in R :
        ExtraUnranked(r) =>
            /\ pc # "MissingPreferences"
            /\ Returned => PartnersOf(r) = {}

\* C8 amended: with one extra receiver that no proposer ranks,
\* stable_matching raises MissingPreferences and nothing is returned.
C8_ExtraReceiverRejected ==
    \A r \in R :
        ExtraUnranked(r) =>
            /\ pc \in {"start", "MissingPreferences"}
            /\ result = <<>>

\* MissingPreferences was raised for an input with an unranked receiver
\* next to a ranked one.
C8_Witness ==
    /\ pc = "MissingPreferences"
    /\ Cardinality(R) = Cardinality(P) + 1
    /\ \E r \in R : ExtraUnranked(r)

\* C9: a second run on the same input returns the same list as the first:
\* the same pairs, in the same orientation and the same order.
C9_Determinism == (Returned /\ previous # <<>>) => result = previous[1]

\* The input of the module docstring and of the __main__ block.
sample_participants ==
    [side_A |->
        [keys |-> <<"abc", "asd", "pqq">>,
         prefs |-> [abc |-> <<"123", "451", "912">>,
                    asd |-> <<"123", "912", "451">>,
                    pqq |-> <<"123", "451", "912">>]],
     side_B |->
        [keys |-> <<"123", "451", "912">>,
         prefs |-> ("123" :> <<"pqq", "asd", "abc">> @@
                    "451" :> <<"asd", "pqq", "abc">> @@
                    "912" :> <<"pqq", "asd", "abc">>)]]

\* C10: on the sample input the returned couples are 123-pqq, 451-abc and
\* 912-asd, and there are three pairs.
C10_DocumentedExample ==
    (participants = sample_participants /\ Returned) =>
        /\ Couples = {{"123", "pqq"}, {"451", "abc"}, {"912", "asd"}}
        /\ Len(result) = 3

\* The run on the sample input has returned.
C10_Witness == participants = sample_participants /\ Returned

\* The validation is over and did not raise.
Accepted == pc \notin {"start", "MissingPreferences"}

\* C11: the validation fails exactly when some list of either side omits
\* a member of the other side; repeated or additional entries of a list
\* do not make it fail.
C11_ValidatorResult ==
    pc # "start" => (pc = "MissingPreferences" <=> SomeoneOmitted)

\* An input was accepted in which a list is longer than the other side:
\* it repeats a member or holds an additional entry.
C11_Witness ==
    /\ Accepted
    /\ \E p \in P : Len(proposers.prefs[p]) > Cardinality(R)

\* The proposers that are no key of the engagement map e.
FreeProposers(e) == {p \in P : is_free(p, e)}

\* The for loop has gone through the whole of free_proposers.
SweepOver == pc = "for" /\ idx > Len(free_proposers)

\* C12: the step that ends a sweep leaves in free_proposers every proposer
\* that is no key of the engagement map, displaced proposers included.
C12_FreeSetRecomputed ==
    [][(SweepOver /\ IsStrict) =>
           Range(free_proposers') = FreeProposers(engagements')]_vars

\* The proposal loop of the run has ended.
LoopEnded == pc \in {"compose", "done"}

\* C13: when the proposal loop has ended no proposer is free with a target
\* of its list it has not proposed to.
C13_ExitCondition ==
    (LoopEnded /\ IsStrict) =>
        \A p \in P : ~(is_free(p, engagements) /\ Unproposed(p) # {})

\* engagement[x] = y implies engagement[y] = x.
Symmetric(e) ==
    \A i \in DOMAIN e : DictHas(e, e[i][2]) /\ DictGet(e, e[i][2]) = e[i][1]

\* No participant is the partner of two keys, no key is held twice.
OneToOne(e) ==
    \A i, j \in DOMAIN e : i # j => (e[i][1] # e[j][1] /\ e[i][2] # e[j][2])

\* Every key is a participant paired with a member of the opposite side.
AcrossSides(e) ==
    \A i \in DOMAIN e :
        \/ e[i][1] \in P /\ e[i][2] \in R
        \/ e[i][1] \in R /\ e[i][2] \in P

\* C14: after every proposal step and in the final state the engagement
\* map is symmetric and one-to-one, and pairs every key with a member of
\* the opposite side.
C14_EngagementSymmetry ==
    /\ Symmetric(engagements)
    /\ OneToOne(engagements)
    /\ AcrossSides(engagements)

\* The first position of x in a list that holds it.
FirstAt(list, x) ==
    CHOOSE i \in DOMAIN list :
        list[i] = x /\ \A j \in DOMAIN list : list[j] = x => i <= j

\* The list holds a, and holds it before b when it holds b.
RanksAbove(list, a, b) ==
    /\ a \in Range(list)
    /\ b \in Range(list) => FirstAt(list, a) < FirstAt(list, b)

\* What a list entry can be.
Targets == R \cup {Stranger}

\* The keys of the engagement map e.
Keys(e) == {e[i][1] : i \in DOMAIN e}

\* The step p -> t with incumbent c, from engagement map e to f.
AcceptanceStep(e, f, p, t, c) ==
    /\ IF t \in R /\ RanksAbove(receivers.prefs[t], p, c)
       THEN /\ ~DictHas(f, c)
            /\ DictHas(f, p) /\ DictGet(f, p) = t
            /\ DictHas(f, t) /\ DictGet(f, t) = p
       ELSE /\ f = e
            /\ is_free(p, f)
    /\ \A k \in (Keys(e) \cup Keys(f)) \ {p, t, c} :
           /\ DictHas(e, k) /\ DictHas(f, k)
           /\ DictGet(e, k) = DictGet(f, k)

\* C15: when a free proposer p proposes to a target t engaged to c, then
\* if t ranks p above c the entry of c is removed and p and t are engaged
\* to each other, otherwise the map is unchanged and p stays free; no
\* entry of anyone else changes.
C15_AcceptanceStep ==
    [][\A p \in P : \A t \in Targets :
           (/\ pc = "for"
            /\ is_free(p, engagements)
            /\ t \notin proposal_history[p]
            /\ t \in proposal_history'[p]
            /\ ~is_free(t, engagements)) =>
               AcceptanceStep(engagements, engagements', p, t,
                              DictGet(engagements, t))]_vars

\* An incumbent has been replaced: the key of a receiver comes before the
\* key of the proposer it is engaged to.
C15_Witness ==
    \E i, j \in DOMAIN engagements :
        /\ i < j
        /\ engagements[i][1] \in R
        /\ engagements[j][1] = engagements[i][2]
        /\ engagements[j][1] \in P

\* The proposal p makes in a step from history h to history g: one target
\* more, the first of p's list that is not in h.
OneProposalInOrder(h, g, p) ==
    \E i \in DOMAIN proposers.prefs[p] :
        /\ proposers.prefs[p][i] \notin h[p]
        /\ \A j \in 1..(i - 1) : proposers.prefs[p][j] \in h[p]
        /\ g[p] = h[p] \cup {proposers.prefs[p][i]}

\* C16: a sweep goes through each of its proposers once; in a step of a
\* sweep no history shrinks, only the proposer the sweep is at can
\* propose, it proposes once, to the first target of its list that is not
\* in its history, and the sweep moves on to the next proposer.
C16_ProposalOrder ==
    [][pc = "for" =>
           /\ \A i, j \in DOMAIN free_proposers :
                  i # j => free_proposers[i] # free_proposers[j]
           /\ \A p \in P :
                  /\ proposal_history[p] \subseteq proposal_history'[p]
                  /\ proposal_history'[p] # proposal_history[p] =>
                         /\ idx <= Len(free_proposers)
                         /\ p = free_proposers[idx]
                         /\ OneProposalInOrder(proposal_history,
                                               proposal_history', p)
                         /\ idx' = idx + 1 \/ pc' = "KeyError"]_vars

\* A proposer has made its third proposal.
C16_Witness ==
    /\ pc = "for"
    /\ \E p \in P : Cardinality(proposal_history[p]) = 3

\* The number of targets in the histories of the proposers of S.
RECURSIVE ProposalsOf(_)
ProposalsOf(S) ==
    IF S = {}
    THEN 0
    ELSE LET p == CHOOSE x \in S : TRUE
         IN  Cardinality(proposal_history[p]) + ProposalsOf(S \ {p})

\* The proposal events of the run so far: each one put a new target into
\* a history.
Proposals == ProposalsOf(P)

ProposalBound == Cardinality(P) * Cardinality(R)

\* The for loop is about to run its body for one more proposer.
IterationPending == pc = "for" /\ idx <= Len(free_proposers)

\* C17: on a validated input of complete strict rankings the proposals
\* made so far never exceed proposers x receivers, and once that many have
\* been made the loop runs no further iteration.
C17_ProposalBound ==
    (Accepted /\ IsStrict) =>
        /\ Proposals <= ProposalBound
        /\ Proposals = ProposalBound => ~IterationPending

\* Some list holds an identifier that is no participant of the opposite
\* side.
SomeoneUnknown ==
    \/ \E p \in P : ~(Range(proposers.prefs[p]) \subseteq R)
    \/ \E r \in R : ~(Range(receivers.prefs[r]) \subseteq P)

\* C18: an input with a list that holds an identifier unknown on the
\* opposite side is rejected by the validation, before any proposal.
C18_UnknownRejected ==
    SomeoneUnknown =>
        /\ pc \in {"start", "MissingPreferences"}
        /\ NothingStarted

\* Receiver r ranks a strictly above b.
StrictlyAbove(r, a, b) ==
    FirstAt(receivers.prefs[r], a) < FirstAt(receivers.prefs[r], b)

\* Every receiver that a proposer has proposed to without being its
\* partner is engaged to someone it ranks above that proposer.
TurnedAwayForBetter ==
    \A p \in P : \A r \in R \cap proposal_history[p] :
        (is_free(p, engagements) \/ DictGet(engagements, p) # r) =>
            /\ DictHas(engagements, r)
            /\ StrictlyAbove(r, DictGet(engagements, r), p)

\* A step in which every engaged receiver stays engaged and changes its
\* partner, if at all, for a proposer it ranks strictly higher.
TradeUpStep ==
    \A r \in R :
        DictHas(engagements, r) =>
            /\ DictHas(engagements', r)
            /\ DictGet(engagements', r) # DictGet(engagements, r) =>
                   StrictlyAbove(r, DictGet(engagements', r),
                                 DictGet(engagements, r))

\* C19: an engaged receiver stays engaged, its partner only changes to a
\* proposer it ranks strictly higher, and after every step each receiver a
\* proposer has proposed to without being its partner is engaged to
\* someone it ranks above that proposer.
C19_ReceiversTradeUp ==
    [][(pc = "for" \/ pc = "compose") =>
           (TradeUpStep /\ TurnedAwayForBetter')]_vars

\* The run has returned with a proposer matched to a receiver other than
\* one it had proposed to before.
C19_Witness ==
    /\ Returned
    /\ \E p \in P : \E r \in R \cap proposal_history[p] :
           PartnersOf(p) # {} /\ r \notin PartnersOf(p)

====
